---- MODULE Spec2Model ----
(***************************************************************************)
(* CudaQRKernel::Call (chainerx/cuda/cuda_device/linalg.cu): one call of   *)
(* the QR kernel, as a state machine over its local variables, the device  *)
(* buffers it creates and releases, and the cuSOLVER calls it issues.      *)
(* The vendor primitives are opaque: what they write (working buffer, tau, *)
(* status cell, scratch sizes) is chosen nondeterministically.  Failures   *)
(* of the runtime itself (cudaMalloc, cudaMemcpy, a cuSOLVER return code   *)
(* other than success) are raised by code outside this file and are not    *)
(* part of the model.                                                      *)
(***************************************************************************)
EXTENDS Integers, Sequences, FiniteSets, TLC

\* ---------------------------------------------------------------- bounds
MaxDim == 2      \* largest extent of one axis of the input array
MaxBuf == 2      \* largest scratch size a size query answers

\* ------------------------------------------------------------ value sets
Vals == {0, 1}                      \* element values: zero / nonzero
Uninit == Cardinality(Vals)         \* content of memory nobody wrote yet
StatusCodes == {0 - 1, 0, 1}        \* values the vendor leaves in devInfo
Modes == {"reduced", "complete", "r", "raw"}
Dtypes == {"kFloat16", "kFloat32", "kFloat64", "kInt32"}

Min(x, y) == IF x < y THEN x ELSE y

\* -------------------------------------------------------------- arrays
\* An Array is a handle: the device buffer it refers to, its shape, and the
\* logical content (a sequence for rank 1, a sequence of rows for rank 2).
NoArray == [buf |-> 0, shape |-> <<>>, data |-> <<>>]

Size(shape) == IF Len(shape) = 0 THEN 0
               ELSE IF Len(shape) = 1 THEN shape[1]
               ELSE IF Len(shape) = 2 THEN shape[1] * shape[2]
               ELSE shape[1] * shape[2] * shape[3]

Fill1(len, v) == [i \in 1..len |-> v]
Fill2(rows, cols, v) == [i \in 1..rows |-> [j \in 1..cols |-> v]]

\* a.Transpose(): the (i, j) element of the result is the (j, i) element of x
TransposeData(shape, data) ==
    [i \in 1..shape[2] |-> [j \in 1..shape[1] |-> data[j][i]]]
TransposeShape(shape) == <<shape[2], shape[1]>>

\* x.At({Slice{}, Slice{0, stop}}): all rows, columns [0, stop)
SliceColsShape(shape, stop) == <<shape[1], Min(stop, shape[2])>>
SliceColsData(shape, data, stop) ==
    [i \in 1..shape[1] |-> [j \in 1..Min(stop, shape[2]) |-> data[i][j]]]

\* x.At({Slice{0, stop}, Slice{}}): rows [0, stop), all columns
SliceRowsShape(shape, stop) == <<Min(stop, shape[1]), shape[2]>>
SliceRowsData(shape, data, stop) ==
    [i \in 1..Min(stop, shape[1]) |-> [j \in 1..shape[2] |-> data[i][j]]]

\* Triu(x, k): entries below the k-th diagonal become zero
TriuKeeps_OneBelow(i, j, k) == j - i >= k - 1
TriuKeeps(i, j, k) == j - i >= k
TriuData(shape, data, k) ==
    [i \in 1..shape[1] |->
        [j \in 1..shape[2] |-> IF TriuKeeps(i, j, k) THEN data[i][j] ELSE 0]]

\* ---------------------------------------------------------- device heap
\* Every buffer the call creates gets the next index of heap.
Alloc(h, what, size) == Append(h, [what |-> what, size |-> size, live |-> TRUE])
NewId(h) == Len(h) + 1
Free(h, id) == IF id = 0 THEN h ELSE [h EXCEPT ![id].live = FALSE]
FreeAll(h, ids) == [i \in 1..Len(h) |-> IF i \in ids THEN [h[i] EXCEPT !.live = FALSE] ELSE h[i]]

\* ------------------------------------------------------------- inputs
\* Content of an m x n input: a fixed pattern (not symmetric, so that a
\* transposition is visible).  The factorization itself is the vendor's, so
\* the content of the input decides nothing after the copy.
InputData(rows, cols) ==
    [i \in 1..rows |-> [j \in 1..cols |-> ((i - 1) * cols + j) % 2]]

Inputs ==
    { [ndim |-> 2, dtype |-> dt, shape |-> <<r, c>>, data |-> InputData(r, c)] :
        dt \in Dtypes, r \in 0..MaxDim, c \in 0..MaxDim }
    \cup
    { [ndim |-> 1, dtype |-> dt, shape |-> <<r>>, data |-> Fill1(r, 1)] :
        dt \in Dtypes, r \in 0..MaxDim }
    \cup
    { [ndim |-> 3, dtype |-> dt, shape |-> <<r, c, 1>>, data |-> Fill2(r, c, 1)] :
        dt \in Dtypes, r \in 0..MaxDim, c \in 0..MaxDim }

VARIABLES
    a, mode,                 \* the arguments of Call
    pc,                      \* position in Call / qr_impl
    m, n, mn, mc,            \* locals
    Q, R, tau, work,         \* Array locals
    work_ptr,                \* raw pointer taken from work (a buffer id)
    devInfo,                 \* raw pointer to the status cell (a buffer id)
    devInfoVal,              \* content of the status cell on the device
    devInfo_h,               \* host copy of the status
    buffersize_geqrf, buffersize_orgqr,
    heap,                    \* device buffers created by this call
    calls,                   \* cuSOLVER / cudaMemcpy calls issued so far
    ret                      \* how the call ended

vars == <<a, mode, pc, m, n, mn, mc, Q, R, tau, work, work_ptr, devInfo,
          devInfoVal, devInfo_h, buffersize_geqrf, buffersize_orgqr, heap,
          calls, ret>>

NoRet == [kind |-> "none", first |-> NoArray, second |-> NoArray,
          err |-> "", info |-> 0]

Init ==
    /\ a \in Inputs
    /\ mode \in Modes
    /\ pc = "CheckNdim"
    /\ m = 0 /\ n = 0 /\ mn = 0 /\ mc = 0
    /\ Q = NoArray /\ R = NoArray /\ tau = NoArray /\ work = NoArray
    /\ work_ptr = 0
    /\ devInfo = 0
    /\ devInfoVal = Uninit
    /\ devInfo_h = 0
    /\ buffersize_geqrf = 0 /\ buffersize_orgqr = 0
    /\ heap = <<>>
    /\ calls = <<>>
    /\ ret = NoRet


\* ------------------------------------------------------------ helpers
NoCall == [fn |-> "", m |-> 0, n |-> 0, k |-> 0, A |-> 0, lda |-> 0, tau |-> 0,
           work |-> 0, lwork |-> 0, info |-> 0, out |-> <<>>]

\* Empty(shape, dtype, device): a fresh buffer with unwritten content
Empty1(id, len) == [buf |-> id, shape |-> <<len>>, data |-> Fill1(len, Uninit)]
Empty2(id, rows, cols) ==
    [buf |-> id, shape |-> <<rows, cols>>, data |-> Fill2(rows, cols, Uninit)]

\* the buffers the Array locals of Call hold
LocalBufs == {Q.buf, R.buf, tau.buf, work.buf} \ {0}

\* line 46: the rank test
NdimOk_AtLeast2(x) == x.ndim >= 2
NdimOk(x) == x.ndim = 2

\* lines 78, 112: the status test
StatusFails_PositiveOnly(st) == st > 0
StatusFails(st) == st # 0

\* lines 93-99: the accumulation width and the shape of the Q buffer
AccumWidth_Economy(md, mm, nn) == Min(mm, nn)
AccumWidth(md, mm, nn) == IF md = "complete" /\ mm > nn THEN mm ELSE Min(mm, nn)
QBufferShape(md, mm, nn) == IF md = "complete" /\ mm > nn THEN <<mm, mm>> ELSE <<nn, mm>>

\* lines 83-84 and 118-119: x[:, 0:stop].T, then Triu(., 0)
RFactorShape(x, stop) == TransposeShape(SliceColsShape(x.shape, stop))
RFactorData(x, stop) ==
    TriuData(RFactorShape(x, stop),
             TransposeData(SliceColsShape(x.shape, stop),
                           SliceColsData(x.shape, x.data, stop)),
             0)

\* line 117: x[0:stop, :].T.Copy()
QFactorShape(x, stop) == TransposeShape(SliceRowsShape(x.shape, stop))
QFactorData(x, stop) ==
    TransposeData(SliceRowsShape(x.shape, stop), SliceRowsData(x.shape, x.data, stop))

\* line 89: what mode raw hands back
RawResult_Triu(x, t) == <<[x EXCEPT !.data = TriuData(x.shape, x.data, 0)], t>>
RawResult(x, t) == <<x, t>>

\* a throw out of Call: the Array locals are destroyed and release their
\* buffers; nothing releases the cudaMalloc'ed status cell
Throw(err, info) ==
    /\ pc' = "done"
    /\ ret' = [kind |-> "threw", first |-> NoArray, second |-> NoArray,
               err |-> err, info |-> info]
    /\ heap' = FreeAll(heap, LocalBufs)
    /\ Q' = NoArray /\ R' = NoArray /\ tau' = NoArray /\ work' = NoArray

\* a return of (x, y): the tuple keeps the buffers of x and y, every other
\* Array local is destroyed; h is the heap at the return statement
Return(h, x, y) ==
    /\ pc' = "done"
    /\ ret' = [kind |-> "returned", first |-> x, second |-> y, err |-> "", info |-> 0]
    /\ heap' = FreeAll(h, {i \in 1..Len(h) : h[i].what # "devInfo"} \ {x.buf, y.buf})
    /\ Q' = NoArray /\ R' = NoArray /\ tau' = NoArray /\ work' = NoArray

\* what the vendor primitives may leave behind
GeqrfW(shape) == [1..shape[1] -> [1..shape[2] -> Vals]]
GeqrfTau(len) == {Fill1(len, v) : v \in Vals}
OrgqrQ(x, width, s) ==
    [i \in 1..x.shape[1] |->
        [j \in 1..x.shape[2] |-> IF i <= width THEN (i + s) % 2 ELSE x.data[i][j]]]

\* A primitive told that its scratch holds lwork elements may write all of
\* them.  When the block behind the scratch pointer is shorter, the excess
\* lands in whatever lies behind it: the working buffer may keep its content
\* or be overwritten.
ScratchOverrun(ptr, lwork) == ptr # 0 /\ lwork > heap[ptr].size
Overwritten(x, ptr, lwork) ==
    IF ScratchOverrun(ptr, lwork)
    THEN {x.data} \cup {Fill2(x.shape[1], x.shape[2], v) : v \in Vals}
    ELSE {x.data}

Call(fn, mm, nn, kk, A, lda, t, w, lwork, info, out) ==
    [fn |-> fn, m |-> mm, n |-> nn, k |-> kk, A |-> A, lda |-> lda, tau |-> t,
     work |-> w, lwork |-> lwork, info |-> info, out |-> out]
Memcpy(src, value) ==
    [NoCall EXCEPT !.fn = "cudaMemcpy", !.info = src, !.out = value]

\* ------------------------------------------------------------- actions
\* lines 46-48
CheckNdim ==
    /\ pc = "CheckNdim"
    /\ IF NdimOk(a)
       THEN /\ pc' = "Prepare"
            /\ UNCHANGED <<ret, heap, Q, R, tau, work>>
       ELSE Throw("DimensionError", 0)
    /\ UNCHANGED <<a, mode, m, n, mn, mc, work_ptr, devInfo, devInfoVal,
                   devInfo_h, buffersize_geqrf, buffersize_orgqr, calls>>

\* lines 50-56: m, n, mn; Q = Empty({0}); R = a.Transpose().Copy(); tau = Empty({mn})
Prepare ==
    /\ pc = "Prepare"
    /\ LET mm == a.shape[1]
           nn == a.shape[2]
           k  == Min(mm, nn)
           h1 == Alloc(heap, "Q", 0)
           h2 == Alloc(h1, "R", nn * mm)
           h3 == Alloc(h2, "tau", k)
       IN /\ m' = mm /\ n' = nn /\ mn' = k
          /\ Q' = Empty1(NewId(heap), 0)
          /\ R' = [buf |-> NewId(h1), shape |-> TransposeShape(a.shape),
                   data |-> TransposeData(a.shape, a.data)]
          /\ tau' = Empty1(NewId(h2), k)
          /\ heap' = h3
    /\ pc' = "Dispatch"
    /\ UNCHANGED <<a, mode, mc, work, work_ptr, devInfo, devInfoVal, devInfo_h,
                   buffersize_geqrf, buffersize_orgqr, calls, ret>>

\* lines 123-126
DispatchFloat16 ==
    /\ pc = "Dispatch"
    /\ a.dtype = "kFloat16"
    /\ Throw("DtypeError", 0)
    /\ UNCHANGED <<a, mode, m, n, mn, mc, work_ptr, devInfo, devInfoVal,
                   devInfo_h, buffersize_geqrf, buffersize_orgqr, calls>>

\* lines 127-130
DispatchFloat32 ==
    /\ pc = "Dispatch"
    /\ a.dtype = "kFloat32"
    /\ pc' = "MallocDevInfo"
    /\ UNCHANGED <<a, mode, m, n, mn, mc, Q, R, tau, work, work_ptr, devInfo,
                   devInfoVal, devInfo_h, buffersize_geqrf, buffersize_orgqr,
                   heap, calls, ret>>

\* lines 131-134
DispatchFloat64 ==
    /\ pc = "Dispatch"
    /\ a.dtype = "kFloat64"
    /\ pc' = "MallocDevInfo"
    /\ UNCHANGED <<a, mode, m, n, mn, mc, Q, R, tau, work, work_ptr, devInfo,
                   devInfoVal, devInfo_h, buffersize_geqrf, buffersize_orgqr,
                   heap, calls, ret>>

\* lines 135-136: CHAINERX_NEVER_REACH() ends the process
DispatchNeverReach ==
    /\ pc = "Dispatch"
    /\ a.dtype \notin {"kFloat16", "kFloat32", "kFloat64"}
    /\ pc' = "done"
    /\ ret' = [NoRet EXCEPT !.kind = "aborted"]
    /\ UNCHANGED <<a, mode, m, n, mn, mc, Q, R, tau, work, work_ptr, devInfo,
                   devInfoVal, devInfo_h, buffersize_geqrf, buffersize_orgqr,
                   heap, calls>>

\* lines 65-66: cudaMalloc(&devInfo, sizeof(int))
MallocDevInfo ==
    /\ pc = "MallocDevInfo"
    /\ heap' = Alloc(heap, "devInfo", 1)
    /\ devInfo' = NewId(heap)
    /\ pc' = "GeqrfBufferSize"
    /\ UNCHANGED <<a, mode, m, n, mn, mc, Q, R, tau, work, work_ptr, devInfoVal,
                   devInfo_h, buffersize_geqrf, buffersize_orgqr, calls, ret>>

\* lines 68-69: Call(geqrf_bufferSize, m, n, r_ptr, n, &buffersize_geqrf)
GeqrfBufferSize ==
    /\ pc = "GeqrfBufferSize"
    /\ \E s \in 0..MaxBuf :
          /\ buffersize_geqrf' = s
          /\ calls' = Append(calls,
                 Call("geqrf_bufferSize", m, n, 0, R.buf, n, 0, 0, 0, 0, s))
    /\ pc' = "AllocWork"
    /\ UNCHANGED <<a, mode, m, n, mn, mc, Q, R, tau, work, work_ptr, devInfo,
                   devInfoVal, devInfo_h, buffersize_orgqr, heap, ret>>

\* lines 71-72: work = Empty({buffersize_geqrf}); work_ptr = data of work
AllocWork ==
    /\ pc = "AllocWork"
    /\ heap' = Alloc(heap, "work", buffersize_geqrf)
    /\ work' = Empty1(NewId(heap), buffersize_geqrf)
    /\ work_ptr' = NewId(heap)
    /\ pc' = "Geqrf"
    /\ UNCHANGED <<a, mode, m, n, mn, mc, Q, R, tau, devInfo, devInfoVal,
                   devInfo_h, buffersize_geqrf, buffersize_orgqr, calls, ret>>

\* lines 74-80: Call(geqrf, m, n, r_ptr, m, tau_ptr, work_ptr, buffersize_geqrf,
\* devInfo); the status is copied to the host; nonzero throws
Geqrf ==
    /\ pc = "Geqrf"
    /\ \E W \in GeqrfW(R.shape), t \in GeqrfTau(mn), st \in StatusCodes :
          /\ calls' = calls \o
                 << Call("geqrf", m, n, 0, R.buf, m, tau.buf, work_ptr,
                         buffersize_geqrf, devInfo, [W |-> W, tau |-> t]),
                    Memcpy(devInfo, st) >>
          /\ devInfoVal' = st
          /\ devInfo_h' = st
          /\ IF StatusFails(st)
             THEN Throw("ChainerxError", st)
             ELSE /\ R' = [R EXCEPT !.data = W]
                  /\ tau' = [tau EXCEPT !.data = t]
                  /\ pc' = "ModeDispatch"
                  /\ UNCHANGED <<Q, work, heap, ret>>
    /\ UNCHANGED <<a, mode, m, n, mn, mc, work_ptr, devInfo, buffersize_geqrf,
                   buffersize_orgqr>>

\* lines 82-86: R = R[:, 0:mn].T; R = Triu(R, 0); return (Q, R)
ModeR ==
    /\ pc = "ModeDispatch"
    /\ mode = "r"
    /\ LET shape == RFactorShape(R, mn)
           h1 == Alloc(heap, "R", Size(shape))
           r1 == [buf |-> NewId(heap), shape |-> shape, data |-> RFactorData(R, mn)]
       IN Return(h1, Q, r1)
    /\ UNCHANGED <<a, mode, m, n, mn, mc, work_ptr, devInfo, devInfoVal,
                   devInfo_h, buffersize_geqrf, buffersize_orgqr, calls>>

\* lines 88-90: return (R, tau)
ModeRaw ==
    /\ pc = "ModeDispatch"
    /\ mode = "raw"
    /\ Return(heap, RawResult(R, tau)[1], RawResult(R, tau)[2])
    /\ UNCHANGED <<a, mode, m, n, mn, mc, work_ptr, devInfo, devInfoVal,
                   devInfo_h, buffersize_geqrf, buffersize_orgqr, calls>>

\* lines 92-102: mc and the Q buffer; Q[0:n, :] = R
PrepareQ ==
    /\ pc = "ModeDispatch"
    /\ mode \notin {"r", "raw"}
    /\ LET shape == QBufferShape(mode, m, n)
           h1 == Alloc(heap, "Q", Size(shape))
           q1 == Empty2(NewId(heap), shape[1], shape[2])
       IN /\ mc' = AccumWidth(mode, m, n)
          /\ Q' = [q1 EXCEPT !.data =
                      [i \in 1..shape[1] |->
                          [j \in 1..shape[2] |->
                              IF i <= n THEN R.data[i][j] ELSE q1.data[i][j]]]]
          /\ heap' = Free(h1, Q.buf)
    /\ pc' = "OrgqrBufferSize"
    /\ UNCHANGED <<a, mode, m, n, mn, R, tau, work, work_ptr, devInfo, devInfoVal,
                   devInfo_h, buffersize_geqrf, buffersize_orgqr, calls, ret>>

\* lines 104-105: Call(orgqr_bufferSize, m, mc, mn, q_ptr, m, tau_ptr, &buffersize_orgqr)
OrgqrBufferSize ==
    /\ pc = "OrgqrBufferSize"
    /\ \E s \in 0..MaxBuf :
          /\ buffersize_orgqr' = s
          /\ calls' = Append(calls,
                 Call("orgqr_bufferSize", m, mc, mn, Q.buf, m, tau.buf, 0, 0, 0, s))
    /\ pc' = "ReallocWork"
    /\ UNCHANGED <<a, mode, m, n, mn, mc, Q, R, tau, work, work_ptr, devInfo,
                   devInfoVal, devInfo_h, buffersize_geqrf, heap, ret>>

\* line 107: work = Empty({buffersize_orgqr}); the array work held before is
\* released by the assignment; work_ptr is not taken again
ReallocWork ==
    /\ pc = "ReallocWork"
    /\ heap' = Free(Alloc(heap, "work", buffersize_orgqr), work.buf)
    /\ work' = Empty1(NewId(heap), buffersize_orgqr)
    /\ pc' = "Orgqr"
    /\ UNCHANGED <<a, mode, m, n, mn, mc, Q, R, tau, work_ptr, devInfo, devInfoVal,
                   devInfo_h, buffersize_geqrf, buffersize_orgqr, calls, ret>>

\* lines 109-114: Call(orgqr, m, mc, mn, q_ptr, m, tau_ptr, work_ptr,
\* buffersize_orgqr, devInfo); the status is copied to the host; nonzero throws
Orgqr ==
    /\ pc = "Orgqr"
    /\ \E s \in Vals, st \in StatusCodes,
          W \in Overwritten(R, work_ptr, buffersize_orgqr) :
          /\ calls' = calls \o
                 << Call("orgqr", m, mc, mn, Q.buf, m, tau.buf, work_ptr,
                         buffersize_orgqr, devInfo, <<>>),
                    Memcpy(devInfo, st) >>
          /\ devInfoVal' = st
          /\ devInfo_h' = st
          /\ IF StatusFails(st)
             THEN Throw("ChainerxError", st)
             ELSE /\ Q' = [Q EXCEPT !.data = OrgqrQ(Q, mc, s)]
                  /\ R' = [R EXCEPT !.data = W]
                  /\ pc' = "Finalize"
                  /\ UNCHANGED <<tau, work, heap, ret>>
    /\ UNCHANGED <<a, mode, m, n, mn, mc, work_ptr, devInfo, buffersize_geqrf,
                   buffersize_orgqr>>

\* lines 116-120: Q = Q[0:mc, :].T.Copy(); R = R[:, 0:mc].T; R = Triu(R, 0);
\* return (Q, R)
Finalize ==
    /\ pc = "Finalize"
    /\ LET qshape == QFactorShape(Q, mc)
           h1 == Alloc(heap, "Q", Size(qshape))
           q1 == [buf |-> NewId(heap), shape |-> qshape, data |-> QFactorData(Q, mc)]
           rshape == RFactorShape(R, mc)
           h2 == Alloc(h1, "R", Size(rshape))
           r1 == [buf |-> NewId(h1), shape |-> rshape, data |-> RFactorData(R, mc)]
       IN Return(h2, q1, r1)
    /\ UNCHANGED <<a, mode, m, n, mn, mc, work_ptr, devInfo, devInfoVal,
                   devInfo_h, buffersize_geqrf, buffersize_orgqr, calls>>

Next ==
    \/ CheckNdim
    \/ Prepare
    \/ DispatchFloat16
    \/ DispatchFloat32
    \/ DispatchFloat64
    \/ DispatchNeverReach
    \/ MallocDevInfo
    \/ GeqrfBufferSize
    \/ AllocWork
    \/ Geqrf
    \/ ModeR
    \/ ModeRaw
    \/ PrepareQ
    \/ OrgqrBufferSize
    \/ ReallocWork
    \/ Orgqr
    \/ Finalize

Spec == Init /\ [][Next]_vars

\* ------------------------------------------------------------- claims
Returned == pc = "done" /\ ret.kind = "returned"
Threw(err) == pc = "done" /\ ret.kind = "threw" /\ ret.err = err
CallsOf(fns) == {i \in 1..Len(calls) : calls[i].fn \in fns}
StatusCellLive == \E i \in 1..Len(heap) : heap[i].what = "devInfo" /\ heap[i].live
DeviceAllocs == Cardinality({i \in 1..Len(heap) : heap[i].size > 0})
\* what the generation primitive left in the working buffer and in tau
GeqrfOut == calls[CHOOSE i \in CallsOf({"geqrf"}) : TRUE].out
\* the R of mode r for a working buffer with content W
RModeR(W) == RFactorData([shape |-> <<a.shape[2], a.shape[1]>>, data |-> W],
                         Min(a.shape[1], a.shape[2]))

\* C1: a call that ended, by a return or by a throw, has released the status
\* cell it allocated.
C1_StatusCellReleased ==
    (pc = "done" /\ ret.kind \in {"returned", "threw"}) => ~StatusCellLive

\* C2: when the unsupported-type error is raised for a half-precision input,
\* the call has allocated no device buffer.
C2_Float16BeforeAllocation ==
    Threw("DtypeError") => DeviceAllocs = 0

\* C3: an input whose rank is not 2 never gets past the rank test: the call
\* ends with the shape error, having created no buffer and called no vendor
\* primitive, whatever the dtype and the mode.
C3_RankErrorBeforeAllocation ==
    a.ndim # 2 =>
        /\ pc \in {"CheckNdim", "done"}
        /\ pc = "done" => Threw("DimensionError")
        /\ heap = <<>>
        /\ calls = <<>>
C3_Witness ==
    /\ a.ndim = 3 /\ a.dtype = "kFloat16" /\ a.shape[1] > 0 /\ a.shape[2] > 0
    /\ Threw("DimensionError")
    /\ heap = <<>>

\* C4: each vendor stage is followed by a read of the status cell; the
\* accumulation stage (size query and execute) comes only after a generation
\* stage whose status was read as zero; a nonzero status read is the last
\* thing the call does: it ends with ChainerxError carrying that status and
\* hands back no (Q, R).
C4_StatusGatesStages ==
    /\ \A i \in CallsOf({"geqrf", "orgqr"}) :
          /\ i < Len(calls)
          /\ calls[i + 1].fn = "cudaMemcpy"
          /\ calls[i + 1].info = calls[i].info
    /\ \A i \in CallsOf({"orgqr_bufferSize", "orgqr"}) :
          \E j \in CallsOf({"geqrf"}) : j + 1 < i /\ calls[j + 1].out = 0
    /\ \A i \in CallsOf({"cudaMemcpy"}) :
          calls[i].out # 0 =>
              /\ i = Len(calls)
              /\ Threw("ChainerxError")
              /\ ret.info = calls[i].out
              /\ ret.first = NoArray /\ ret.second = NoArray
    /\ Returned => \A i \in CallsOf({"cudaMemcpy"}) : calls[i].out = 0
C4_Witness ==
    /\ Threw("ChainerxError")
    /\ ret.info < 0
    /\ CallsOf({"orgqr"}) # {}
    /\ calls[Len(calls)].out = ret.info

\* C5: in modes reduced and complete the returned Q has shape (m, mc) and the
\* returned R has shape (mc, n), with mc = m for complete with m > n and
\* mc = min(m, n) otherwise.
C5_ResultShapes ==
    (Returned /\ mode \in {"reduced", "complete"}) =>
        LET rows == a.shape[1]
            cols == a.shape[2]
            k == IF rows < cols THEN rows ELSE cols
            w == IF mode = "complete" /\ rows > cols THEN rows ELSE k
        IN /\ ret.first.shape = <<rows, w>>
           /\ ret.second.shape = <<w, cols>>
           /\ DOMAIN ret.first.data = 1..rows
           /\ \A i \in 1..rows : DOMAIN ret.first.data[i] = 1..w
           /\ DOMAIN ret.second.data = 1..w
           /\ \A i \in 1..w : DOMAIN ret.second.data[i] = 1..cols
C5_Witness ==
    /\ Returned /\ mode = "complete"
    /\ a.shape[1] > a.shape[2] /\ a.shape[2] > 0
    /\ ret.first.shape = <<a.shape[1], a.shape[1]>>
    /\ ret.second.shape = a.shape

C7_RawReturnsPacked ==
    (Returned /\ mode = "raw") =>
        LET g == calls[CHOOSE i \in CallsOf({"geqrf"}) : TRUE]
        IN /\ ret.first.buf = g.A
           /\ ret.first.shape = <<a.shape[2], a.shape[1]>>
           /\ ret.first.data = g.out.W
           /\ ret.second.buf = g.tau
           /\ ret.second.shape = <<Min(a.shape[1], a.shape[2])>>
           /\ ret.second.data = g.out.tau
           /\ heap[ret.first.buf].live /\ heap[ret.second.buf].live
           /\ CallsOf({"orgqr_bufferSize", "orgqr"}) = {}
C7_Witness ==
    /\ Returned /\ mode = "raw"
    /\ a.shape[1] # a.shape[2]
    /\ \E i \in 1..a.shape[2], j \in 1..a.shape[1] :
          i > j /\ ret.first.data[i][j] # 0
    /\ \E i \in 1..Len(ret.second.data) : ret.second.data[i] # 0

\* C8: a return in a mode other than raw hands back an R whose entries below
\* the diagonal are zero and whose other entries are those of the working
\* buffer, sliced and transposed, as it stood at the return.
C8_RUpperTriangular ==
    [][ (pc' = "done" /\ ret'.kind = "returned" /\ mode # "raw") =>
            /\ ret'.second.shape[2] = n
            /\ \A i \in 1..ret'.second.shape[1], j \in 1..n :
                  ret'.second.data[i][j] = IF i > j THEN 0 ELSE R.data[j][i] ]_vars
C8_Witness ==
    /\ Returned /\ mode = "reduced"
    /\ buffersize_orgqr <= buffersize_geqrf
    /\ \E i \in 1..ret.second.shape[1], j \in 1..ret.second.shape[2] :
          i > j /\ GeqrfOut.W[j][i] # 0 /\ ret.second.data[i][j] = 0
    /\ \E i \in 1..ret.second.shape[1], j \in 1..ret.second.shape[2] :
          i <= j /\ ret.second.data[i][j] # 0

\* C9: when orgqr is about to be invoked, the scratch pointer it is given is
\* that of the array allocated with the accumulation size, that buffer is
\* allocated, and the size passed does not exceed the buffer's size.
C9_OrgqrScratchFresh ==
    pc = "Orgqr" =>
        /\ work_ptr = work.buf
        /\ heap[work_ptr].live
        /\ buffersize_orgqr <= heap[work_ptr].size

\* C10: the size query before reflector generation and the geqrf call are
\* given the same m, n, working buffer and leading dimension, and the scratch
\* handed to geqrf has the queried size.
C10_QueryMatchesGeqrf ==
    \A i \in CallsOf({"geqrf_bufferSize"}), j \in CallsOf({"geqrf"}) :
        /\ calls[i].m = calls[j].m
        /\ calls[i].n = calls[j].n
        /\ calls[i].A = calls[j].A
        /\ calls[i].lda = calls[j].lda
        /\ calls[j].lwork = calls[i].out
        /\ heap[calls[j].work].size = calls[i].out

====
